---- MODULE Spec2Model ----
(***************************************************************************)
(* The client-side managed connection (src/client.py, class _Connection)   *)
(* as a state machine.  The four tasks of a run (socket loop, send loop,   *)
(* receive loop, application callback) are cooperatively scheduled: a task *)
(* runs from one await to the next without interruption, and the scheduler *)
(* may resume any task that is able to run.  Every action below is one     *)
(* such segment.  The application callback's segment is split into its     *)
(* single calls; while it is "active" no other task takes a step.          *)
(*                                                                         *)
(* The server (src/server.py, class _Server) is modelled the same way: its *)
(* receive loop and its tick task, with the tick callback either an        *)
(* arbitrary one (ServerSpec) or game_tick of src/gameserver.py, facing    *)
(* the client run by game_loop of src/main.py (GameSpec).                  *)
(***************************************************************************)
EXTENDS Integers, Sequences, FiniteSets, TLC

\* ---------------------------------------------------------------- bounds
MaxConnects == 2
MaxSends == 1
MaxDatagrams == 1
MaxTicks == 2
MaxCalls == 2
MaxArrivals == 1
MaxMoves == 2

\* ------------------------------------------------------------- constants
NoSocket == 0
NoAddr == 0
Addrs == {1, 2}

\* settings.py: the server's address (HOST, PORT) and the event types.
ServerAddr == 1
JOIN == 1
JOINED == 2
UPDATE == 3
MOVE == 4
INITIAL_GAME_STATE == [event |-> UPDATE, player_dicts |-> <<>>]

\* The remote addresses an arbitrary tick callback deals with, and the game
\* states it may set.
CAddrs == {1, 2}
GameStates == {[event |-> UPDATE, player_dicts |-> <<>>],
               [event |-> UPDATE, player_dicts |-> <<[name |-> "a", position |-> <<0, 0>>]>>]}
SpawnPoints == {<<0, 0>>, <<1, 1>>}

VARIABLES
  runpc,            \* position of Connection.run: "idle", "running", "returned", "raised"
  cancel_scope,     \* self._cancel_scope is not None
  cancelled,        \* the task group's cancel scope has been cancelled
  error,            \* a task of the group ended with a fatal error
  socket,           \* self._socket: a socket id, or NoSocket
  address,          \* self._address: an address, or NoAddr for (None, None)
  connect_address,  \* self._connect_address: an address, or NoAddr for None
  close_flag,       \* self._close
  out_queue,        \* self._out_queue
  in_queue,         \* self._in_queue
  sockOpen,         \* per socket ever created: not yet closed
  sockPeer,         \* per socket ever created: the remote address it is connected to
  sockBuf,          \* per socket ever created: datagrams received and not yet read
  sockpc,           \* position of _socket_loop
  connArg,          \* the address handed to create_connected_udp_socket
  sendpc,           \* position of _send_loop
  sendSock,         \* the socket whose send() the send loop is suspended in
  sendPkt,          \* the packet handed to that send()
  recvpc,           \* position of _recv_loop
  recvSock,         \* the socket the receive loop iterates over
  apppc,            \* position of the application callback
  wire,             \* history: the datagrams transmitted, with the socket used
  sendLog,          \* history: per send() call, the state it was called in
  arrivedOn,        \* history: per incoming datagram, the socket it arrived on
  yielded,          \* history: what __next__ returned, and the socket current then
  lastReq,          \* history: the most recent connect()/close() request
  nconnect,         \* history: the number of connect requests made
  shutdownCalled,   \* history: shutdown() has been called during the run
  lastCall,         \* history: the call the callback has just made, if a close() or a
                    \* shutdown(), and whether the call before it was the same
  sendFailed,       \* history: the values whose send() raised ClosedResourceError
  usedOld,          \* history: a task has sent or received on a socket other than
                    \* the current one while there was a current one
  reqSinceBind,     \* history: connect() or close() has been called since the socket
                    \* loop last stored a socket
  s_running,        \* _Server.run has bound the socket and started its tasks
  tickpc,           \* position of _server_tick
  s_recvpc,         \* position of the server's _recv_loop
  bcastTodo,        \* the addresses `for address in self.clients` has yet to visit
  flushIdx,         \* the index `for address, packet in self._out_queue` is at (0: not in it)
  s_sendArg,        \* the address and bytes handed to the socket's sendto()
  s_sockBuf,        \* the server socket: datagrams received and not yet read
  s_in_queue,       \* _Server._in_queue
  s_out_queue,      \* _Server._out_queue
  clients,          \* _Server.clients
  game_state,       \* _Server.game_state
  client_ids,       \* gameserver.client_ids
  glpc,             \* position of main.game_loop
  player_id,        \* game_loop's player_id (-1 for None)
  ntick,            \* history: the number of the current tick
  ncall,            \* history: the number of sendto/sendall calls of this tick's callback
  enq,              \* history: the (address, packet) pairs enqueued by this tick's callback
  s_wire,           \* history: the datagrams the server transmitted in this tick
  allLog,           \* history: per sendall() of this tick, its value and `clients` then
  clients0,         \* history: `clients` when this tick's callback was invoked
  narrived,         \* history: the number of datagrams that came in from the network
  sentSeq,          \* history: the values game_loop passed to send() while bound
  srvYield,         \* history: the values the server's receive-drain yielded
  cliYield          \* history: the values game_loop's receive-drain yielded

conn == <<socket, address, connect_address, close_flag, out_queue, in_queue>>
socks == <<sockOpen, sockPeer, sockBuf>>
lifecycle == <<sockpc, connArg>>
sender == <<sendpc, sendSock, sendPkt>>
receiver == <<recvpc, recvSock>>
runstate == <<runpc, cancel_scope, cancelled, error>>
calls == <<lastCall, sendFailed, usedOld>>
history == <<wire, sendLog, arrivedOn, yielded, lastReq, nconnect, shutdownCalled, calls,
             reqSinceBind>>
srvtasks == <<s_running, tickpc, s_recvpc, bcastTodo, flushIdx, s_sendArg>>
srvdata == <<s_in_queue, s_out_queue, clients, game_state, client_ids>>
srvhist == <<ntick, ncall, enq, s_wire, allLog, clients0, narrived>>
server == <<s_sockBuf, srvtasks, srvdata, srvhist>>
game == <<glpc, player_id, sentSeq, srvYield, cliYield>>
client == <<conn, socks, lifecycle, sender, receiver, runstate, apppc, history>>
vars == <<client, server, game>>

\* self.encode / self.decode: a codec pair; the wire form differs from the value.
encode(v) == <<"bytes", v>>

decode(b) == b[2]

\* The property _Connection.closed.
closed == socket = NoSocket

\* The property _Connection.running.
running == cancel_scope

Init ==
  /\ runpc = "idle" /\ cancel_scope = FALSE /\ cancelled = FALSE /\ error = FALSE
  /\ socket = NoSocket /\ address = NoAddr /\ connect_address = NoAddr
  /\ close_flag = FALSE /\ out_queue = <<>> /\ in_queue = <<>>
  /\ sockOpen = <<>> /\ sockPeer = <<>> /\ sockBuf = <<>>
  /\ sockpc = "init" /\ connArg = NoAddr
  /\ sendpc = "init" /\ sendSock = NoSocket /\ sendPkt = <<>>
  /\ recvpc = "init" /\ recvSock = NoSocket
  /\ apppc = "init"
  /\ wire = {} /\ sendLog = <<>> /\ arrivedOn = <<>> /\ yielded = {}
  /\ lastReq = [kind |-> "none", addr |-> NoAddr]
  /\ nconnect = 0
  /\ shutdownCalled = FALSE
  /\ lastCall = "none" /\ sendFailed = {} /\ usedOld = FALSE
  /\ reqSinceBind = FALSE
  /\ s_running = FALSE /\ tickpc = "init" /\ s_recvpc = "init"
  /\ bcastTodo = {} /\ flushIdx = 0 /\ s_sendArg = <<>>
  /\ s_sockBuf = <<>> /\ s_in_queue = <<>> /\ s_out_queue = <<>>
  /\ clients = {} /\ game_state = <<>> /\ client_ids = <<>>
  /\ glpc = "wait" /\ player_id = -1
  /\ ntick = 0 /\ ncall = 0 /\ enq = <<>> /\ s_wire = <<>> /\ allLog = {}
  /\ clients0 = {} /\ narrived = 0
  /\ sentSeq = <<>> /\ srvYield = <<>> /\ cliYield = <<>>

\* A task other than the callback may be resumed: the run is on and the callback
\* is not in the middle of its segment.
Schedulable == runpc = "running" /\ apppc # "active"

\* ------------------------------------------------------------ Connection.run

\* run(coroutine, address=a): records the address to connect to, enters the task
\* group, keeps its cancel scope and starts the four tasks.
run(a) ==
  /\ runpc = "idle"
  /\ a # NoAddr => nconnect < MaxConnects
  /\ connect_address' = a
  /\ cancel_scope' = TRUE
  /\ runpc' = "running"
  /\ sockpc' = "ready" /\ sendpc' = "ready" /\ recvpc' = "ready" /\ apppc' = "ready"
  /\ lastReq' = IF a # NoAddr
                  THEN [kind |-> "connect", addr |-> a]
                  ELSE lastReq
  /\ nconnect' = IF a # NoAddr THEN nconnect + 1 ELSE nconnect
  /\ UNCHANGED <<socket, address, close_flag, out_queue, in_queue, socks, connArg,
                 sendSock, sendPkt, recvSock, cancelled, error,
                 wire, sendLog, arrivedOn, yielded, shutdownCalled, calls, reqSinceBind>>
  /\ UNCHANGED <<server, game>>

\* ------------------------------------------------- _close_socket, _socket_loop

\* A _close_socket that leaves the outgoing queue as it is.
close_socket_keeping_out_queue ==
  /\ socket' = NoSocket
  /\ address' = NoAddr
  /\ out_queue' = out_queue
  /\ in_queue' = <<>>

\* _close_socket after its await: the state variables and the queues are reset.
close_socket_done ==
  /\ socket' = NoSocket
  /\ address' = NoAddr
  /\ out_queue' = <<>>
  /\ in_queue' = <<>>

\* The `if self._connect_address is not None` branch of _socket_loop, reached
\* with no socket: the call of create_connected_udp_socket, or the loop's sleep(0).
connect_requested ==
  IF connect_address' # NoAddr
    THEN connArg' = connect_address' /\ sockpc' = "connecting"
    ELSE sockpc' = "ready" /\ UNCHANGED connArg

\* One pass of _socket_loop from the top of the loop to its next await: the
\* aclose() of _close_socket (from either branch), the creation of the new
\* socket, or the loop's sleep(0).
socket_loop ==
  /\ Schedulable /\ ~cancelled /\ sockpc = "ready"
  /\ IF ~closed /\ (close_flag \/ connect_address # NoAddr)
       THEN /\ sockOpen' = [sockOpen EXCEPT ![socket] = FALSE]
            /\ sockpc' = "closing"
            /\ close_flag' = FALSE
            /\ UNCHANGED <<socket, address, connect_address, out_queue, in_queue,
                           connArg, sockPeer, sockBuf>>
       ELSE /\ close_flag' = FALSE
            /\ UNCHANGED <<socket, address, connect_address, out_queue, in_queue, socks>>
            /\ connect_requested
  /\ UNCHANGED <<sender, receiver, runstate, apppc, history>>
  /\ UNCHANGED <<server, game>>

\* _socket_loop resumed in _close_socket's aclose(): the rest of _close_socket,
\* then on to the connect branch.
socket_closed ==
  /\ Schedulable /\ ~cancelled /\ sockpc = "closing"
  /\ close_socket_done
  /\ UNCHANGED <<connect_address, close_flag, socks>>
  /\ connect_requested
  /\ UNCHANGED <<sender, receiver, runstate, apppc, history>>
  /\ UNCHANGED <<server, game>>

\* _socket_loop resumed with the new socket: it is stored, the address is taken
\* from self._connect_address as it is now, and the request is cleared.
socket_connected ==
  /\ Schedulable /\ ~cancelled /\ sockpc = "connecting"
  /\ sockPeer' = Append(sockPeer, connArg)
  /\ sockOpen' = Append(sockOpen, TRUE)
  /\ sockBuf' = Append(sockBuf, <<>>)
  /\ socket' = Len(sockPeer) + 1
  /\ address' = connect_address
  /\ connect_address' = NoAddr
  /\ sockpc' = "ready"
  /\ reqSinceBind' = FALSE
  /\ UNCHANGED <<close_flag, out_queue, in_queue, connArg>>
  /\ UNCHANGED <<sender, receiver, runstate, apppc,
                 wire, sendLog, arrivedOn, yielded, lastReq, nconnect, shutdownCalled, calls>>
  /\ UNCHANGED <<server, game>>

\* create_connected_udp_socket raises (the address cannot be resolved): the
\* socket loop ends with the error and the task group cancels its scope.
socket_connect_error ==
  /\ Schedulable /\ ~cancelled /\ sockpc = "connecting"
  /\ sockpc' = "done"
  /\ error' = TRUE /\ cancelled' = TRUE
  /\ UNCHANGED <<conn, socks, connArg, sender, receiver, runpc, cancel_scope, apppc, history>>
  /\ UNCHANGED <<server, game>>

\* ------------------------------------------------------------------ _send_loop

\* A send loop that takes the newest packet of the queue.
send_loop_top_newest_first ==
  IF ~closed /\ out_queue # <<>>
    THEN /\ sendPkt' = out_queue[Len(out_queue)]
         /\ out_queue' = SubSeq(out_queue, 1, Len(out_queue) - 1)
         /\ sendSock' = socket
         /\ sendpc' = "sending"
    ELSE /\ sendpc' = "ready"
         /\ UNCHANGED <<out_queue, sendSock, sendPkt>>

\* The top of _send_loop's loop, up to its next await: the oldest packet is
\* popped and handed to the current socket's send(), or the loop sleeps.
send_loop_top ==
  IF ~closed /\ out_queue # <<>>
    THEN /\ sendPkt' = Head(out_queue)
         /\ out_queue' = Tail(out_queue)
         /\ sendSock' = socket
         /\ sendpc' = "sending"
    ELSE /\ sendpc' = "ready"
         /\ UNCHANGED <<out_queue, sendSock, sendPkt>>

\* _send_loop resumed in sleep(0).
send_loop ==
  /\ Schedulable /\ ~cancelled /\ sendpc = "ready"
  /\ UNCHANGED <<socket, address, connect_address, close_flag, in_queue>>
  /\ send_loop_top
  /\ UNCHANGED <<socks, lifecycle, receiver, runstate, apppc, history>>
  /\ UNCHANGED <<server, game>>

\* _send_loop resumed in the socket's send(): the datagram goes out if the socket
\* is still open (and reaches the server's socket if that is its peer and the
\* server is up); on a socket closed meanwhile send() raises ClosedResourceError,
\* which the loop swallows.  Either way the loop goes round without sleeping.
send_done ==
  /\ Schedulable /\ ~cancelled /\ sendpc = "sending"
  /\ wire' = IF sockOpen[sendSock]
               THEN wire \cup {[v |-> decode(sendPkt), on |-> sendSock]}
               ELSE wire
  /\ UNCHANGED <<socket, address, connect_address, close_flag, in_queue>>
  /\ send_loop_top
  /\ sendFailed' = IF sockOpen[sendSock]
                     THEN sendFailed
                     ELSE sendFailed \cup {decode(sendPkt)}
  /\ usedOld' = (usedOld \/ (sockOpen[sendSock] /\ ~closed /\ sendSock # socket))
  /\ s_sockBuf' = IF sockOpen[sendSock] /\ s_running /\ sockPeer[sendSock] = ServerAddr
                    THEN Append(s_sockBuf, <<sendPkt, sendSock>>)
                    ELSE s_sockBuf
  /\ UNCHANGED <<socks, lifecycle, receiver, runstate, apppc,
                 sendLog, arrivedOn, yielded, lastReq, nconnect, shutdownCalled, lastCall,
                 reqSinceBind>>
  /\ UNCHANGED <<srvtasks, srvdata, srvhist, game>>

\* ------------------------------------------------------------------ _recv_loop

\* The top of _recv_loop's loop, up to its next await: the iteration over the
\* current socket begins (and suspends in receive()), or the loop sleeps.
recv_loop_top ==
  IF ~closed
    THEN recvSock' = socket /\ recvpc' = "receiving"
    ELSE recvpc' = "ready" /\ UNCHANGED recvSock

\* _recv_loop resumed in sleep(0).
recv_loop ==
  /\ Schedulable /\ ~cancelled /\ recvpc = "ready"
  /\ recv_loop_top
  /\ UNCHANGED <<conn, socks, lifecycle, sender, runstate, apppc, history>>
  /\ UNCHANGED <<server, game>>

\* _recv_loop resumed in receive() with a datagram in the socket's buffer: it is
\* appended to the incoming queue, and the iteration asks for the next one.  A
\* datagram buffered before the socket was closed may still be handed out.
recv_packet ==
  /\ Schedulable /\ ~cancelled /\ recvpc = "receiving"
  /\ sockBuf[recvSock] # <<>>
  /\ in_queue' = Append(in_queue, Head(sockBuf[recvSock]))
  /\ sockBuf' = [sockBuf EXCEPT ![recvSock] = Tail(@)]
  /\ usedOld' = (usedOld \/ (~closed /\ recvSock # socket))
  /\ UNCHANGED <<socket, address, connect_address, close_flag, out_queue,
                 sockOpen, sockPeer, lifecycle, sender, receiver, runstate, apppc,
                 wire, sendLog, arrivedOn, yielded, lastReq, nconnect, shutdownCalled,
                 lastCall, sendFailed, reqSinceBind>>
  /\ UNCHANGED <<server, game>>

\* _recv_loop resumed in receive() on a socket that has been closed: receive()
\* raises ClosedResourceError, the loop swallows it and goes round without
\* sleeping.
recv_closed ==
  /\ Schedulable /\ ~cancelled /\ recvpc = "receiving"
  /\ ~sockOpen[recvSock]
  /\ recv_loop_top
  /\ UNCHANGED <<conn, socks, lifecycle, sender, runstate, apppc, history>>
  /\ UNCHANGED <<server, game>>

\* The network hands a datagram to the open socket: it is buffered until the
\* receive loop reads it.
datagram_received ==
  /\ Schedulable /\ ~closed /\ sockOpen[socket]
  /\ Len(arrivedOn) < MaxDatagrams
  /\ sockBuf' = [sockBuf EXCEPT ![socket] = Append(@, encode(Len(arrivedOn) + 1))]
  /\ arrivedOn' = Append(arrivedOn, socket)
  /\ UNCHANGED <<conn, sockOpen, sockPeer, lifecycle, sender, receiver, runstate, apppc,
                 wire, sendLog, yielded, lastReq, nconnect, shutdownCalled, calls, reqSinceBind>>
  /\ UNCHANGED <<server, game>>

\* ------------------------------------------------ the methods the callback calls

\* connect(host, port): the request is recorded; the most recent one stands.
connect(a) ==
  /\ connect_address' = a
  /\ UNCHANGED <<socket, address, close_flag, out_queue, in_queue>>

\* A close() that flips the request flag.
close_toggling ==
  /\ close_flag' = ~close_flag
  /\ UNCHANGED <<socket, address, connect_address, out_queue, in_queue>>

\* close(): the request is recorded.
close ==
  /\ close_flag' = TRUE
  /\ UNCHANGED <<socket, address, connect_address, out_queue, in_queue>>

\* A send(packet) that queues the packet whatever the state of the connection.
send_always(v) ==
  /\ out_queue' = Append(out_queue, encode(v))
  /\ UNCHANGED <<socket, address, connect_address, close_flag, in_queue>>

\* send(packet): the encoded packet is queued unless the connection is closed.
send(v) ==
  /\ out_queue' = IF ~closed THEN Append(out_queue, encode(v)) ELSE out_queue
  /\ UNCHANGED <<socket, address, connect_address, close_flag, in_queue>>

\* A shutdown() that forgets the cancel scope without cancelling it.
shutdown_without_cancel ==
  /\ cancelled' = cancelled
  /\ cancel_scope' = FALSE

\* shutdown(): the cancel scope, if there is one, is cancelled and forgotten.
shutdown ==
  /\ cancelled' = (cancelled \/ cancel_scope)
  /\ cancel_scope' = FALSE

\* pump(clear_packets) up to its sleep(0).
pump(clear_packets) ==
  /\ in_queue' = IF clear_packets THEN <<>> ELSE in_queue
  /\ UNCHANGED <<socket, address, connect_address, close_flag, out_queue>>

\* ------------------------------------------------- calls made before the run

\* connect(host, port) called while the connection is not running.
pre_connect ==
  /\ runpc = "idle" /\ nconnect < MaxConnects
  /\ \E a \in Addrs :
       /\ connect(a)
       /\ lastReq' = [kind |-> "preconnect", addr |-> a]
  /\ nconnect' = nconnect + 1
  /\ UNCHANGED <<socks, lifecycle, sender, receiver, runstate, apppc,
                 wire, sendLog, arrivedOn, yielded, shutdownCalled, calls, reqSinceBind>>
  /\ UNCHANGED <<server, game>>

\* close() called while the connection is not running.
pre_close ==
  /\ runpc = "idle"
  /\ close
  /\ lastReq' = [kind |-> "close", addr |-> NoAddr]
  /\ UNCHANGED <<socks, lifecycle, sender, receiver, runstate, apppc,
                 wire, sendLog, arrivedOn, yielded, nconnect, shutdownCalled, calls, reqSinceBind>>
  /\ UNCHANGED <<server, game>>

\* ------------------------------------------------------ the application callback

\* The address the socket loop is on its way to being bound to: that of the
\* create_connected_udp_socket call it is suspended in, else the one requested.
Outstanding ==
  IF sockpc = "connecting" THEN connArg ELSE connect_address

\* The callback is resumed (started, or back from pump's sleep(0)).
app_resume ==
  /\ runpc = "running" /\ ~cancelled /\ apppc = "ready"
  /\ apppc' = "active"
  /\ UNCHANGED <<conn, socks, lifecycle, sender, receiver, runstate, history>>
  /\ UNCHANGED <<server, game>>

app_connect ==
  /\ apppc = "active" /\ nconnect < MaxConnects
  /\ \E a \in Addrs :
       /\ connect(a)
       /\ lastReq' = [kind |-> "connect", addr |-> a]
  /\ nconnect' = nconnect + 1
  /\ lastCall' = "none"
  /\ UNCHANGED <<socks, lifecycle, sender, receiver, runstate, apppc,
                 wire, sendLog, arrivedOn, yielded, shutdownCalled, sendFailed, usedOld>>
  /\ reqSinceBind' = TRUE
  /\ UNCHANGED <<server, game>>

app_close ==
  /\ apppc = "active"
  /\ close
  /\ lastReq' = [kind |-> "close", addr |-> IF closed THEN Outstanding ELSE NoAddr]
  /\ lastCall' = IF lastCall \in {"close", "close2"} THEN "close2" ELSE "close"
  /\ UNCHANGED <<socks, lifecycle, sender, receiver, runstate, apppc,
                 wire, sendLog, arrivedOn, yielded, nconnect, shutdownCalled,
                 sendFailed, usedOld>>
  /\ reqSinceBind' = TRUE
  /\ UNCHANGED <<server, game>>

app_send ==
  /\ apppc = "active" /\ Len(sendLog) < MaxSends
  /\ send(Len(sendLog) + 1)
  /\ sendLog' = Append(sendLog, [sock |-> socket, nsock |-> Len(sockPeer),
                                 afterClose |-> lastReq.kind = "close"])
  /\ lastCall' = "none"
  /\ UNCHANGED <<socks, lifecycle, sender, receiver, runstate, apppc,
                 wire, arrivedOn, yielded, lastReq, nconnect, shutdownCalled,
                 sendFailed, usedOld, reqSinceBind>>
  /\ UNCHANGED <<server, game>>

\* __next__ with a packet queued: the oldest one is popped and decoded.
app_next ==
  /\ apppc = "active" /\ in_queue # <<>>
  /\ in_queue' = Tail(in_queue)
  /\ yielded' = yielded \cup {[d |-> decode(Head(in_queue)), cur |-> socket]}
  /\ UNCHANGED <<socket, address, connect_address, close_flag, out_queue,
                 socks, lifecycle, sender, receiver, runstate, apppc,
                 wire, sendLog, arrivedOn, lastReq, nconnect, shutdownCalled,
                 sendFailed, usedOld, reqSinceBind>>
  /\ lastCall' = "none"
  /\ UNCHANGED <<server, game>>

app_shutdown ==
  /\ apppc = "active"
  /\ shutdown
  /\ shutdownCalled' = TRUE
  /\ lastCall' = IF lastCall \in {"shutdown", "shutdown2"} THEN "shutdown2" ELSE "shutdown"
  /\ UNCHANGED <<conn, socks, lifecycle, sender, receiver, runpc, error, apppc,
                 wire, sendLog, arrivedOn, yielded, lastReq, nconnect,
                 sendFailed, usedOld, reqSinceBind>>
  /\ UNCHANGED <<server, game>>

\* The callback awaits pump(): it is suspended in pump's sleep(0).
app_pump ==
  /\ apppc = "active"
  /\ \E clear_packets \in BOOLEAN : pump(clear_packets)
  /\ apppc' = "ready"
  /\ lastCall' = "none"
  /\ UNCHANGED <<socks, lifecycle, sender, receiver, runstate,
                 wire, sendLog, arrivedOn, yielded, lastReq, nconnect, shutdownCalled,
                 sendFailed, usedOld, reqSinceBind>>
  /\ UNCHANGED <<server, game>>

\* The callback raises: the task group cancels its scope and will re-raise.
app_raise ==
  /\ apppc = "active"
  /\ apppc' = "done"
  /\ error' = TRUE /\ cancelled' = TRUE
  /\ lastCall' = "none"
  /\ UNCHANGED <<conn, socks, lifecycle, sender, receiver, runpc, cancel_scope,
                 wire, sendLog, arrivedOn, yielded, lastReq, nconnect, shutdownCalled,
                 sendFailed, usedOld, reqSinceBind>>
  /\ UNCHANGED <<server, game>>

\* The callback returns.
app_return ==
  /\ apppc = "active"
  /\ apppc' = "done"
  /\ lastCall' = "none"
  /\ UNCHANGED <<conn, socks, lifecycle, sender, receiver, runstate,
                 wire, sendLog, arrivedOn, yielded, lastReq, nconnect, shutdownCalled,
                 sendFailed, usedOld, reqSinceBind>>
  /\ UNCHANGED <<server, game>>

\* ------------------------------------------------------ the end of Connection.run

\* The four tasks of the group have ended.
AllTasksEnded ==
  sockpc = "done" /\ sendpc = "done" /\ recvpc = "done" /\ apppc = "done"

\* The cancelled scope reaches the tasks of the group: every task still suspended
\* in an await is cancelled there.  None of them catches the cancellation or has
\* cleanup of its own, so that they all end is one step.  The callback is reached
\* at the await it yields in; until then it runs on.
tasks_cancelled ==
  /\ Schedulable /\ cancelled /\ ~AllTasksEnded
  /\ sockpc' = "done" /\ sendpc' = "done" /\ recvpc' = "done" /\ apppc' = "done"
  /\ UNCHANGED <<conn, socks, connArg, sendSock, sendPkt, recvSock, runstate, history>>
  /\ UNCHANGED <<server, game>>

\* The task group is left when its four tasks have ended.  After an error the
\* exception leaves main() at once; otherwise main() goes on to _close_socket().
run_exit ==
  /\ runpc = "running" /\ AllTasksEnded
  /\ IF error
       THEN /\ runpc' = "raised"
            /\ UNCHANGED <<conn, socks>>
       ELSE /\ runpc' = "returned"
            /\ IF closed
                 THEN UNCHANGED <<conn, socks>>
                 ELSE /\ sockOpen' = [sockOpen EXCEPT ![socket] = FALSE]
                      /\ close_socket_done
                      /\ UNCHANGED <<connect_address, close_flag, sockPeer, sockBuf>>
  /\ UNCHANGED <<lifecycle, sender, receiver, cancel_scope, cancelled, error, apppc, history>>
  /\ UNCHANGED <<server, game>>

\* ------------------------------------------------------------------ _Server

\* _Server.encode / _Server.decode: the server's codec pair.
s_encode(v) == <<"bytes", v>>

s_decode(b) == b[2]

\* The orders in which a `for address in self.clients` may visit the set S.
Orders(S) ==
  {f \in [1..Cardinality(S) -> S] : \A i, j \in DOMAIN f : f[i] = f[j] => i = j}

\* A sendall(packet) that queues the packet for every address there is.
sendall_everyone(packet) ==
  \E order \in Orders(CAddrs) :
    s_out_queue' = s_out_queue \o [i \in DOMAIN order |-> <<order[i], packet>>]

\* An append to the outgoing queue that appends nothing.
queued_nothing(q, a, packet) == q

\* The outgoing queue q after self._out_queue.append((address, packet)).
queued(q, a, packet) == Append(q, <<a, packet>>)

\* sendto(address, packet): the pair is queued.
sendto(a, packet) ==
  s_out_queue' = queued(s_out_queue, a, packet)

\* sendall(packet): one pair is queued for each address now in `clients`.
sendall(packet) ==
  \E order \in Orders(clients) :
    s_out_queue' = s_out_queue \o [i \in DOMAIN order |-> <<order[i], packet>>]

\* _Server.run up to the start of the two tasks: the socket is bound and kept.
s_run ==
  /\ ~s_running
  /\ s_running' = TRUE
  /\ tickpc' = "start" /\ s_recvpc' = "ready"
  /\ UNCHANGED <<bcastTodo, flushIdx, s_sendArg, s_sockBuf, s_in_queue, s_out_queue,
                 clients, client_ids, srvhist>>

\* server.run(host, port, tick_func) with `game_state` as constructed.
server_run ==
  /\ s_run
  /\ UNCHANGED <<game_state, client, game>>

\* Another task of the server than the tick task may be resumed: the tick task is
\* suspended in an await (it is not in the callback, nor between the end of a
\* flush and the next call of the callback).
s_Schedulable == s_running /\ tickpc \notin {"top", "callback", "raised"}

\* The network hands the server's socket a datagram from some remote address.
s_datagram_received ==
  /\ s_Schedulable /\ narrived < MaxArrivals
  /\ \E a \in CAddrs :
       s_sockBuf' = Append(s_sockBuf, <<s_encode(narrived + 1), a>>)
  /\ narrived' = narrived + 1
  /\ UNCHANGED <<srvtasks, srvdata, ntick, ncall, enq, s_wire, allLog, clients0,
                 client, game>>

\* The server's _recv_loop is started: it suspends in the socket's receive().
s_recv_loop ==
  /\ s_Schedulable /\ s_recvpc = "ready"
  /\ s_recvpc' = "receiving"
  /\ UNCHANGED <<s_running, tickpc, bcastTodo, flushIdx, s_sendArg, s_sockBuf,
                 srvdata, srvhist, client, game>>

\* The server's _recv_loop resumed in receive() with a datagram: it is decoded and
\* appended, with its sender, to the incoming queue.
s_recv_packet ==
  /\ s_Schedulable /\ s_recvpc = "receiving" /\ s_sockBuf # <<>>
  /\ s_in_queue' = Append(s_in_queue, <<s_decode(Head(s_sockBuf)[1]), Head(s_sockBuf)[2]>>)
  /\ s_sockBuf' = Tail(s_sockBuf)
  /\ UNCHANGED <<srvtasks, s_out_queue, clients, game_state, client_ids, srvhist,
                 client, game>>

\* A flush that ends without clearing the outgoing queue.
tick_continue_without_clear(todo, idx) ==
  IF todo # {}
    THEN /\ \E a \in todo :
              /\ s_sendArg' = <<a, s_encode(game_state)>>
              /\ bcastTodo' = todo \ {a}
         /\ flushIdx' = 0 /\ tickpc' = "sending"
         /\ UNCHANGED s_out_queue
    ELSE IF idx <= Len(s_out_queue)
      THEN /\ s_sendArg' = <<s_out_queue[idx][1], s_encode(s_out_queue[idx][2])>>
           /\ bcastTodo' = {} /\ flushIdx' = idx /\ tickpc' = "sending"
           /\ UNCHANGED s_out_queue
      ELSE /\ s_out_queue' = s_out_queue
           /\ s_sendArg' = <<>> /\ bcastTodo' = {} /\ flushIdx' = 0
           /\ tickpc' = "top"

\* _server_tick from the end of one await to the next, after the callback: the
\* next address of `clients` is sent the game state, then the next pair of the
\* outgoing queue is sent, then the queue is cleared and the loop is at its top.
tick_continue(todo, idx) ==
  IF todo # {}
    THEN /\ \E a \in todo :
              /\ s_sendArg' = <<a, s_encode(game_state)>>
              /\ bcastTodo' = todo \ {a}
         /\ flushIdx' = 0 /\ tickpc' = "sending"
         /\ UNCHANGED s_out_queue
    ELSE IF idx <= Len(s_out_queue)
      THEN /\ s_sendArg' = <<s_out_queue[idx][1], s_encode(s_out_queue[idx][2])>>
           /\ bcastTodo' = {} /\ flushIdx' = idx /\ tickpc' = "sending"
           /\ UNCHANGED s_out_queue
      ELSE /\ s_out_queue' = <<>>
           /\ s_sendArg' = <<>> /\ bcastTodo' = {} /\ flushIdx' = 0
           /\ tickpc' = "top"

\* The tick task calls tick_func: when first started, or at the top of its loop.
s_tick_begin ==
  /\ s_running /\ tickpc \in {"start", "top"} /\ ntick < MaxTicks
  /\ tickpc' = "callback"
  /\ ntick' = ntick + 1 /\ ncall' = 0
  /\ enq' = <<>> /\ s_wire' = <<>> /\ allLog' = {} /\ clients0' = clients
  /\ UNCHANGED <<s_running, s_recvpc, bcastTodo, flushIdx, s_sendArg, s_sockBuf,
                 srvdata, narrived, client, game>>

\* A tick that goes from its sleep(0) straight to the outgoing queue.
s_tick_sleep_without_broadcast ==
  /\ s_running /\ tickpc = "sleep"
  /\ tick_continue({}, 1)
  /\ UNCHANGED <<s_running, s_recvpc, s_sockBuf, s_in_queue, clients, game_state,
                 client_ids, srvhist, client, game>>

\* The tick task resumed in its sleep(0): the loop over `clients` begins.
s_tick_sleep ==
  /\ s_running /\ tickpc = "sleep"
  /\ tick_continue(clients, 1)
  /\ UNCHANGED <<s_running, s_recvpc, s_sockBuf, s_in_queue, clients, game_state,
                 client_ids, srvhist, client, game>>

\* The tick task resumed in the socket's sendto(): the datagram goes out (and
\* into the buffer of the client socket with that address, if it is open), and
\* the loop it is in goes on.
s_tick_sent ==
  /\ s_running /\ tickpc = "sending"
  /\ s_wire' = Append(s_wire, [to |-> s_sendArg[1], pkt |-> s_decode(s_sendArg[2]),
                               bcast |-> flushIdx = 0])
  /\ sockBuf' = IF s_sendArg[1] \in DOMAIN sockOpen /\ sockOpen[s_sendArg[1]]
                  THEN [sockBuf EXCEPT ![s_sendArg[1]] = Append(@, s_sendArg[2])]
                  ELSE sockBuf
  /\ tick_continue(bcastTodo, flushIdx + 1)
  /\ UNCHANGED <<s_running, s_recvpc, s_sockBuf, s_in_queue, clients, game_state,
                 client_ids, ntick, ncall, enq, allLog, clients0, narrived>>
  /\ UNCHANGED <<conn, sockOpen, sockPeer, lifecycle, sender, receiver, runstate,
                 apppc, history, game>>

\* ------------------------------------------------- an arbitrary tick callback

\* The callback drains one packet: _Server.__next__ with a packet queued.
cb_next ==
  /\ tickpc = "callback" /\ s_in_queue # <<>>
  /\ s_in_queue' = Tail(s_in_queue)
  /\ UNCHANGED <<s_sockBuf, srvtasks, s_out_queue, clients, game_state, client_ids,
                 srvhist, client, game>>

\* The callback registers an address: server.clients.add(a).
cb_add_client ==
  /\ tickpc = "callback"
  /\ \E a \in CAddrs \ clients : clients' = clients \cup {a}
  /\ UNCHANGED <<s_sockBuf, srvtasks, s_in_queue, s_out_queue, game_state, client_ids,
                 srvhist, client, game>>

\* The callback removes an address: server.clients.remove(a).
cb_remove_client ==
  /\ tickpc = "callback"
  /\ \E a \in clients : clients' = clients \ {a}
  /\ UNCHANGED <<s_sockBuf, srvtasks, s_in_queue, s_out_queue, game_state, client_ids,
                 srvhist, client, game>>

\* The callback sets server.game_state.
cb_set_state ==
  /\ tickpc = "callback"
  /\ \E g \in GameStates \ {game_state} : game_state' = g
  /\ UNCHANGED <<s_sockBuf, srvtasks, s_in_queue, s_out_queue, clients, client_ids,
                 srvhist, client, game>>

\* The callback calls server.sendto(a, X), X a packet not sent before.
cb_sendto ==
  /\ tickpc = "callback" /\ ncall < MaxCalls
  /\ \E a \in CAddrs : sendto(a, [tick |-> ntick, n |-> ncall + 1])
  /\ ncall' = ncall + 1
  /\ enq' = s_out_queue'
  /\ UNCHANGED <<s_sockBuf, srvtasks, s_in_queue, clients, game_state, client_ids,
                 ntick, s_wire, allLog, clients0, narrived, client, game>>

\* The callback calls server.sendall(X), X a packet not sent before.
cb_sendall ==
  /\ tickpc = "callback" /\ ncall < MaxCalls
  /\ sendall([tick |-> ntick, n |-> ncall + 1])
  /\ ncall' = ncall + 1
  /\ enq' = s_out_queue'
  /\ allLog' = allLog \cup {[v |-> [tick |-> ntick, n |-> ncall + 1], snap |-> clients]}
  /\ UNCHANGED <<s_sockBuf, srvtasks, s_in_queue, clients, game_state, client_ids,
                 ntick, s_wire, clients0, narrived, client, game>>

\* The callback returns: the tick task goes on to its sleep(0).
cb_return ==
  /\ tickpc = "callback"
  /\ tickpc' = "sleep"
  /\ UNCHANGED <<s_sockBuf, s_running, s_recvpc, bcastTodo, flushIdx, s_sendArg,
                 srvdata, srvhist, client, game>>

\* ------------------------------------------------- gameserver.py: game_tick

\* The __main__ of gameserver.py: the initial game state is set and the server run.
gs_main ==
  /\ game_state' = INITIAL_GAME_STATE
  /\ s_run
  /\ UNCHANGED <<client, game>>

\* The dictionary d with key k set to v.
SetKey(d, k, v) ==
  [x \in DOMAIN d \cup {k} |-> IF x = k THEN v ELSE d[x]]

\* The body of game_tick's loop over the packets q drained from the server,
\* applied to the state st of the server; sp is the spawn point drawn.  A MOVE
\* from a client with no player dictionary raises KeyError (err).
RECURSIVE tick_packets(_, _, _)
tick_packets(q, st, sp) ==
  IF q = <<>> \/ st.err
    THEN st
    ELSE
      LET packet == Head(q)[1]
          addr == Head(q)[2]
          ids == IF addr \in DOMAIN st.client_ids
                   THEN st.client_ids
                   ELSE SetKey(st.client_ids, addr, Cardinality(DOMAIN st.client_ids))
          client_id == ids[addr]
          pd == st.game_state.player_dicts
          joined == packet.event = JOIN
          pd1 == IF joined
                   THEN SetKey(pd, client_id, [name |-> packet.name, position |-> <<0, 0>>])
                   ELSE pd
          moved == packet.event = MOVE
          keyerror == moved /\ client_id \notin DOMAIN pd1
          pd2 == IF moved /\ ~keyerror
                   THEN [pd1 EXCEPT ![client_id].position = packet.position]
                   ELSE pd1
      IN  tick_packets(Tail(q),
            [clients |-> IF joined THEN st.clients \cup {addr} ELSE st.clients,
             game_state |-> [st.game_state EXCEPT !.player_dicts = pd2],
             client_ids |-> ids,
             out |-> IF joined
                       THEN queued(st.out, addr, [event |-> JOINED, id |-> client_id,
                                                  position |-> sp])
                       ELSE st.out,
             seen |-> Append(st.seen, packet),
             err |-> keyerror],
            sp)

\* The tick callback game_tick: every packet in the incoming queue is drained and
\* handled; then the tick task goes on to its sleep(0), or ends with the error.
game_tick ==
  /\ tickpc = "callback"
  /\ \E sp \in SpawnPoints :
       LET st == tick_packets(s_in_queue,
                   [clients |-> clients, game_state |-> game_state,
                    client_ids |-> client_ids, out |-> s_out_queue,
                    seen |-> <<>>, err |-> FALSE], sp)
       IN  /\ clients' = st.clients
           /\ game_state' = st.game_state
           /\ client_ids' = st.client_ids
           /\ s_out_queue' = st.out
           /\ s_in_queue' = SubSeq(s_in_queue, Len(st.seen) + 1, Len(s_in_queue))
           /\ srvYield' = srvYield \o st.seen
           /\ tickpc' = IF st.err THEN "raised" ELSE "sleep"
  /\ enq' = s_out_queue'
  /\ UNCHANGED <<s_sockBuf, s_running, s_recvpc, bcastTodo, flushIdx, s_sendArg,
                 ntick, ncall, s_wire, allLog, clients0, narrived,
                 client, glpc, player_id, sentSeq, cliYield>>

\* ---------------------------------------------------------- main.py: game_loop

\* The __main__ of main.py, once the server is up:
\* connection.run(game_loop, address=(HOST, PORT)).
client_main ==
  /\ s_running
  /\ run(ServerAddr)

\* game_loop resumed in the pump() of its wait loop with the connection bound:
\* the loop ends and JOIN is sent.
gl_connected ==
  /\ runpc = "running" /\ ~cancelled /\ apppc = "ready" /\ glpc = "wait" /\ ~closed
  /\ send([event |-> JOIN, name |-> "Alice"])
  /\ sentSeq' = Append(sentSeq, [event |-> JOIN, name |-> "Alice"])
  /\ apppc' = "active" /\ glpc' = "pump"
  /\ UNCHANGED <<socks, lifecycle, sender, receiver, runstate, history,
                 server, player_id, srvYield, cliYield>>

\* The main loop's `await connection.pump()`.
gl_pump ==
  /\ apppc = "active" /\ glpc = "pump"
  /\ pump(FALSE)
  /\ apppc' = "ready" /\ glpc' = "packets"
  /\ UNCHANGED <<socks, lifecycle, sender, receiver, runstate, history,
                 server, player_id, sentSeq, srvYield, cliYield>>

\* The player id after the packets q have been handled in order.
RECURSIVE id_after(_, _)
id_after(q, id) ==
  IF q = <<>> THEN id
  ELSE id_after(Tail(q), IF Head(q).event = JOINED THEN Head(q).id ELSE id)

\* game_loop resumed in the main loop's pump(): `for packet in connection`
\* drains and handles every packet of the incoming queue.
gl_packets ==
  /\ runpc = "running" /\ ~cancelled /\ apppc = "ready" /\ glpc = "packets"
  /\ LET got == [i \in DOMAIN in_queue |-> decode(in_queue[i])]
     IN  /\ cliYield' = cliYield \o got
         /\ player_id' = id_after(got, player_id)
  /\ in_queue' = <<>>
  /\ apppc' = "active" /\ glpc' = "events"
  /\ UNCHANGED <<socket, address, connect_address, close_flag, out_queue,
                 socks, lifecycle, sender, receiver, runstate, history,
                 server, sentSeq, srvYield>>

\* The pygame events: on a quit event, connection.shutdown().
gl_events ==
  /\ apppc = "active" /\ glpc = "events"
  /\ \E quit \in BOOLEAN :
       IF quit THEN shutdown ELSE UNCHANGED <<cancelled, cancel_scope>>
  /\ glpc' = "move"
  /\ UNCHANGED <<conn, socks, lifecycle, sender, receiver, runpc, error, apppc, history,
                 server, player_id, sentSeq, srvYield, cliYield>>

\* The new position is sent: connection.send({"event": MOVE, "position": ...}).
gl_move ==
  /\ apppc = "active" /\ glpc = "move"
  /\ Len(sentSeq) <= MaxMoves
  /\ LET v == [event |-> MOVE, position |-> <<Len(sentSeq), 0>>]
     IN  /\ send(v)
         /\ sentSeq' = IF ~closed THEN Append(sentSeq, v) ELSE sentSeq
  /\ glpc' = "pump"
  /\ UNCHANGED <<socks, lifecycle, sender, receiver, runstate, apppc, history,
                 server, player_id, srvYield, cliYield>>

\* ------------------------------------------------------------- specifications

SocketTask ==
  \/ socket_loop
  \/ socket_closed
  \/ socket_connected
  \/ socket_connect_error

SendTask ==
  \/ send_loop
  \/ send_done

RecvTask ==
  \/ recv_loop
  \/ recv_packet
  \/ recv_closed

AppTask ==
  \/ app_resume
  \/ app_connect
  \/ app_close
  \/ app_send
  \/ app_next
  \/ app_shutdown
  \/ app_pump
  \/ app_raise
  \/ app_return

Next ==
  \/ pre_connect
  \/ pre_close
  \/ \E a \in Addrs \cup {NoAddr} : run(a)
  \/ SocketTask
  \/ SendTask
  \/ RecvTask
  \/ AppTask
  \/ datagram_received
  \/ tasks_cancelled
  \/ run_exit

Spec == Init /\ [][Next]_vars

\* The scheduler resumes every task that is able to run: a task that is able to
\* run each time the callback yields is resumed (strong fairness: it is not able
\* to run while the callback holds the thread).  run() is called, and the
\* callback does not hold the thread for ever: it comes to a pump() (or ends).
Fairness ==
  /\ WF_vars(\E a \in Addrs \cup {NoAddr} : run(a))
  /\ SF_vars(SocketTask)
  /\ WF_vars(SendTask)
  /\ WF_vars(RecvTask)
  /\ WF_vars(app_resume)
  /\ WF_vars(app_pump)
  /\ WF_vars(tasks_cancelled)
  /\ WF_vars(run_exit)

FairSpec == Spec /\ Fairness

TickTask ==
  \/ s_tick_begin
  \/ s_tick_sleep
  \/ s_tick_sent

Callback ==
  \/ cb_next
  \/ cb_add_client
  \/ cb_remove_client
  \/ cb_set_state
  \/ cb_sendto
  \/ cb_sendall
  \/ cb_return

\* The server on its own, with an arbitrary tick callback and datagrams coming
\* in from the network.
ServerNext ==
  \/ server_run
  \/ s_datagram_received
  \/ s_recv_loop
  \/ s_recv_packet
  \/ TickTask
  \/ Callback

ServerSpec == Init /\ [][ServerNext]_vars

GameLoop ==
  \/ gl_connected
  \/ gl_pump
  \/ gl_packets
  \/ gl_events
  \/ gl_move

\* The game: the server run by gameserver.py with game_tick as its callback, and
\* a client run by main.py with game_loop as its callback, over a transport that
\* delivers every datagram, in order.
GameNext ==
  \/ gs_main
  \/ client_main
  \/ socket_loop
  \/ socket_connected
  \/ SendTask
  \/ recv_loop
  \/ recv_packet
  \/ GameLoop
  \/ tasks_cancelled
  \/ run_exit
  \/ s_recv_loop
  \/ s_recv_packet
  \/ TickTask
  \/ game_tick

GameSpec == Init /\ [][GameNext]_vars

\* ------------------------------------------------------------------- claims

\* The socket loop is at rest: suspended in its sleep(0) with no request pending.
Quiescent ==
  /\ runpc = "running" /\ ~cancelled
  /\ sockpc = "ready" /\ ~close_flag /\ connect_address = NoAddr

AllSocketsClosed == \A s \in DOMAIN sockOpen : ~sockOpen[s]

\* C1: at every point another task can observe, either there is no socket and
\* address is (None, None), or the socket is connected to the address reported.
C1_SocketMatchesAddress ==
  \/ closed /\ address = NoAddr
  \/ ~closed /\ sockPeer[socket] = address

\* C2: the most recent connect() wins and no connect request is lost: once the
\* socket loop is at rest and the last request was a connect, the connection is
\* bound to the address of that connect.
C2_LastConnectWins ==
  (Quiescent /\ lastReq.kind = "connect")
     => (~closed /\ sockOpen[socket] /\ sockPeer[socket] = lastReq.addr)

\* C3: a close() with no connect() after it leaves the connection unbound,
\* whatever connect requests came before it and whether or not they had been
\* serviced: once the socket loop is at rest and the last request was a close,
\* closed is true.
C3_CloseWins ==
  (Quiescent /\ lastReq.kind = "close") => closed

\* C4: a value passed to send() after close() and before any later connect() is
\* never transmitted on any socket.
C4_NoSendAfterClose ==
  \A w \in wire : ~sendLog[w.v].afterClose

\* C5: at most one socket is open at any time, and a packet is only ever
\* transmitted on a socket that was already open when send() enqueued it.
C5_NoCarryOver ==
  /\ Cardinality({s \in DOMAIN sockOpen : sockOpen[s]}) <= 1
  /\ \A w \in wire : w.on <= sendLog[w.v].nsock

\* C5 witness: a packet was enqueued while bound to the first socket, the
\* reconnect has been serviced, and the packet did not go out on the new socket.
C5_Witness ==
  /\ Len(sockPeer) = 2 /\ sockPeer[1] # sockPeer[2]
  /\ socket = 2 /\ sockOpen[2] /\ ~sockOpen[1]
  /\ Len(sendLog) = 1 /\ sendLog[1].sock = 1
  /\ out_queue = <<>> /\ sendpc = "ready"
  /\ \A w \in wire : w.on = 1

\* C6: while no socket is open, address is (None, None) and both queues are empty.
C6_ClosedIsEmpty ==
  closed => (address = NoAddr /\ out_queue = <<>> /\ in_queue = <<>>)

\* C7: the receive-drain never yields a datagram that arrived on a socket other
\* than the one current at the time of the drain.
C7_NoStaleYield ==
  \A y \in yielded : y.cur = arrivedOn[y.d]

\* C8: whenever run has stopped, by shutdown() or by a fatal error, the socket
\* is closed, closed is true and address is (None, None).
C8_RunExitClosesSocket ==
  runpc \in {"returned", "raised"}
     => (closed /\ address = NoAddr /\ AllSocketsClosed)

\* C10: running is true exactly while control is inside run().
C10_RunningIffInRun ==
  running <=> (runpc = "running")

\* C9: once shutdown() has been called and the callback is suspended at its next
\* yield point, the run eventually returns with all four tasks ended and the
\* socket closed; and no task is left running once run has returned.
C9_ShutdownUnwinds ==
  /\ (shutdownCalled /\ apppc = "ready" /\ runpc = "running")
        ~> (runpc = "returned" /\ AllTasksEnded /\ closed /\ address = NoAddr
            /\ AllSocketsClosed)
  /\ [](runpc \in {"returned", "raised"} => AllTasksEnded)

\* C9 witness: a run that was bound to a remote address has returned after shutdown().
C9_Witness ==
  /\ runpc = "returned" /\ shutdownCalled /\ Len(sockPeer) > 0 /\ AllTasksEnded

\* The state of the connection and of its tasks, without the history variables.
program == <<conn, socks, lifecycle, sender, receiver, runstate, apppc>>

\* C11: a connect(h,p) made while not running is not lost: when run(callback) is
\* then called without an address and no other request follows, the connection
\* connects to (h,p): once the socket loop is at rest it is bound to (h,p).
C11_PreRunConnectKept ==
  (Quiescent /\ lastReq.kind = "preconnect")
     => (~closed /\ sockOpen[socket] /\ sockPeer[socket] = lastReq.addr)

\* C12: a close() called while closed is true does nothing, wherever it falls
\* relative to a pending or in-progress connect request: with no request after
\* it, the connection comes to rest bound to the address that was outstanding
\* when close() was called, as it would have without the call.
C12_CloseWhileClosedIsNoOp ==
  (Quiescent /\ lastReq.kind = "close" /\ lastReq.addr # NoAddr)
     => (~closed /\ sockOpen[socket] /\ sockPeer[socket] = lastReq.addr)

\* C13: send(v) called while closed is true raises nothing and changes nothing
\* of the connection, and v is never transmitted afterwards, not even after a
\* later connect.
C13_SendWhileClosedDropped ==
  /\ [][(Len(sendLog') > Len(sendLog) /\ closed) => UNCHANGED program]_vars
  /\ [](\A w \in wire : sendLog[w.v].sock # NoSocket)
  /\ [](\A n \in DOMAIN sendLog :
          sendLog[n].sock = NoSocket
             => /\ \A i \in DOMAIN out_queue : decode(out_queue[i]) # n
                /\ ~(sendpc = "sending" /\ decode(sendPkt) = n))

\* C13 witness: send() was called while closed, and the connection has since
\* been bound by a later connect.
C13_Witness ==
  /\ Len(sendLog) = 1 /\ sendLog[1].sock = NoSocket /\ lastReq.kind = "connect"
  /\ Quiescent /\ ~closed /\ sockOpen[socket] /\ sendpc = "ready" /\ wire = {}

\* C19: a close() that directly follows a close(), and a shutdown() that
\* directly follows a shutdown(), change nothing and raise nothing: the state
\* after the second call is the state after the first.
C19_Idempotent ==
  /\ [][(lastCall = "close" /\ lastCall' = "close2") => UNCHANGED program]_vars
  /\ [][(lastCall = "shutdown" /\ lastCall' = "shutdown2") => UNCHANGED program]_vars

\* C19 witness: close() has been called twice in a row while bound.
C19_Witness ==
  lastCall = "close2" /\ close_flag /\ ~closed /\ sockOpen[socket]

\* C20: a teardown under the send or the receive task ends neither task nor
\* the run, a packet whose send() failed on the torn-down socket is not sent
\* again, and once a new socket is open neither task sends or receives on
\* another socket than the current one.
C20_StaleSocketHandled ==
  /\ (runpc = "running" /\ ~cancelled) => (sendpc # "done" /\ recvpc # "done")
  /\ \A v \in sendFailed :
       /\ \A w \in wire : w.v # v
       /\ \A i \in DOMAIN out_queue : decode(out_queue[i]) # v
  /\ ~usedOld

\* The (address, packet) pairs of the outgoing queue transmitted in this tick.
Flushed ==
  LET sel == SelectSeq(s_wire, LAMBDA w : ~w.bcast)
  IN  [i \in DOMAIN sel |-> <<sel[i].to, sel[i].pkt>>]

\* The number of times x occurs in the sequence q.
Count(q, x) == Cardinality({i \in DOMAIN q : q[i] = x})

\* C15: when a tick's callback adds address A to `clients` and calls
\* sendto(A, X), then by the end of that tick's flush, before the next call of
\* the callback, the server has transmitted to A the game state as the callback
\* left it, and X.
C15_SameTickDelivery ==
  tickpc = "top" =>
    \A a \in clients \ clients0 :
       /\ \E i \in DOMAIN s_wire :
             s_wire[i].bcast /\ s_wire[i].to = a /\ s_wire[i].pkt = game_state
       /\ \A j \in DOMAIN enq :
             enq[j][1] = a =>
               \E i \in DOMAIN s_wire :
                 ~s_wire[i].bcast /\ s_wire[i].to = a /\ s_wire[i].pkt = enq[j][2]

\* C15 witness: the second tick's flush has ended; its callback had set the game
\* state, added an address and called sendto for it.
C15_Witness ==
  /\ tickpc = "top" /\ ntick = 2 /\ game_state # <<>>
  /\ \E a \in clients \ clients0 : \E j \in DOMAIN enq : enq[j][1] = a

\* C16: the pairs enqueued by a tick's callback are transmitted exactly once
\* each, in enqueue order, in that tick's flush and in no later tick, and the
\* outgoing queue is empty when the next callback is called, however the
\* receive task is interleaved.
C16_FlushedOnceInOrder ==
  /\ tickpc = "top" => (Flushed = enq /\ s_out_queue = <<>>)
  /\ tickpc # "top" =>
        (s_out_queue = enq /\ Len(Flushed) <= Len(enq)
           /\ Flushed = SubSeq(enq, 1, Len(Flushed)))
  /\ \A i \in DOMAIN Flushed : Flushed[i][2].tick = ntick

\* C16 witness: the second tick's flush of two pairs has ended, and the receive
\* task has queued a datagram meanwhile.
C16_Witness ==
  /\ tickpc = "top" /\ ntick = 2 /\ Len(enq) = 2 /\ Len(Flushed) = 2
  /\ s_in_queue # <<>>

\* C18: sendall(value) enqueues exactly one (address, value) pair for each
\* address in `clients` at the call and none for any other: the pairs are in the
\* queue until the flush and are what the flush transmits, whatever is added to
\* or removed from `clients` after the call.
C18_SendallSnapshot ==
  \A l \in allLog : \A a \in CAddrs :
     Count(IF tickpc = "top" THEN Flushed ELSE s_out_queue, <<a, l.v>>)
        = IF a \in l.snap THEN 1 ELSE 0

\* C18 witness: a flush has ended after a sendall(); one address was added to
\* `clients` after the call and one that was in it has been removed.
C18_Witness ==
  /\ tickpc = "top"
  /\ \E l \in allLog : \E a, b \in CAddrs :
        /\ a \in clients \ l.snap
        /\ b \in l.snap \ clients
        /\ Count(Flushed, <<b, l.v>>) = 1

\* C14: while the connection stays bound to the server, over a transport that
\* neither loses nor reorders, the server's receive-drain yields the values in
\* the order of the send() calls: what it has yielded is an initial part of
\* what was sent.
C14_FifoPreserved ==
  /\ Len(srvYield) <= Len(sentSeq)
  /\ srvYield = SubSeq(sentSeq, 1, Len(srvYield))

\* C14 witness: three values were sent and the server has drained all three.
C14_Witness ==
  Len(sentSeq) = 3 /\ srvYield = sentSeq /\ sentSeq[1] # sentSeq[2] /\ sentSeq[2] # sentSeq[3]

\* C17 as stated: the first packet the client's receive-drain yields after it
\* sent JOIN is the JOINED reply.
C17_JoinedFirst ==
  cliYield # <<>> => cliYield[1].event = JOINED

\* C17: the first packet the client's receive-drain yields after it sent JOIN
\* is the game state broadcast of the tick that handled the JOIN, which lists
\* the new player; the second is the JOINED reply of that tick; game state
\* broadcasts follow.
C17_JoinedAfterBroadcast ==
  \A i \in DOMAIN cliYield :
     IF i = 2
       THEN cliYield[i].event = JOINED /\ cliYield[i].id = 0
       ELSE /\ cliYield[i].event = UPDATE
            /\ DOMAIN cliYield[i].player_dicts = {0}
            /\ cliYield[i].player_dicts[0].name = "Alice"

\* C17 witness: the client has drained the broadcast of the tick that handled its
\* JOIN, the JOINED reply and the next tick's broadcast, and knows its id.
C17_Witness ==
  /\ Len(cliYield) = 3 /\ player_id = 0
  /\ cliYield[1].event = UPDATE /\ cliYield[2].event = JOINED /\ cliYield[3].event = UPDATE

\* The nth send() enqueued its packet on the socket the socket loop stored last.
EnqueuedOnLastBound(n) ==
  sendLog[n].sock # NoSocket /\ sendLog[n].sock = Len(sockPeer)

\* The places the packet of the nth send() can be: in the outgoing queue, handed
\* to an open socket's send(), or transmitted on the socket it was enqueued for.
InOutQueue(n) == Count(out_queue, encode(n)) = 1
InSend(n) == sendpc = "sending" /\ sendPkt = encode(n) /\ sockOpen[sendSock]
Transmitted(n) == [v |-> n, on |-> sendLog[n].sock] \in wire

\* C21: while the run goes on with no shutdown() and no close() or connect() has
\* been called since the connection was bound, a packet that send() enqueued on
\* that connection is not lost and not duplicated: it is in exactly one of the
\* outgoing queue, the socket's send(), and the wire.
C21_EnqueuedNeverLost ==
  (runpc = "running" /\ ~cancelled /\ ~reqSinceBind) =>
    \A n \in DOMAIN sendLog :
      EnqueuedOnLastBound(n) =>
        /\ InOutQueue(n) \/ InSend(n) \/ Transmitted(n)
        /\ ~(InOutQueue(n) /\ InSend(n))
        /\ ~(InOutQueue(n) /\ Transmitted(n))
        /\ ~(InSend(n) /\ Transmitted(n))

====
